---- MODULE Spec2Model ----
(***************************************************************************)
(* gfx-mem: the Chunked pool (chunked.rs), the Combined dispatcher         *)
(* (combined.rs), the Smart selector (smart.rs) and the alignment helpers  *)
(* (lib.rs) as a state machine.                                            *)
(*                                                                         *)
(* Blocks are records [memory, start, end, tag]; an optional block is a    *)
(* set holding no or one block. Indices are 0-based as in the source, so   *)
(* element i of a Vec is Seq[i + 1].                                       *)
(***************************************************************************)
EXTENDS Integers, Sequences, FiniteSets, TLC

VARIABLES
    chunks,       \* ChunkedAllocator: chunked.rs:126-132
    owner,        \* the owner `A` handed to the Chunked pool's calls
    combined,     \* CombinedAllocator: combined.rs:34-42
    smart,        \* SmartAllocator: smart.rs:30-33
    held,         \* blocks returned to the caller and not freed yet
    allocs,       \* number of successful allocs so far
    frees,        \* number of frees so far
    issued,       \* every block ever returned to the caller
    status,       \* "live" | "disposed" | "panicked"
    ev            \* what the last operation was and how it ended

vars == <<chunks, owner, combined, smart, held, allocs, frees, issued, status, ev>>

\* ------------------------------------------------------------------ bounds

\* the caller holds at most this many blocks at a time
MaxHeld == 3
\* successful allocs in one behaviour
MaxAllocs == 4
\* memory objects the owner hands out in one behaviour
MaxOwnerBlocks == 3
\* the caller of a selector holds at most this many blocks at a time
MaxSmartHeld == 2
\* successful allocs of a selector in one behaviour
MaxSmartAllocs == 3
\* pick_node is applied to the sizes of this many size classes above the smallest
MaxSizeClass == 3
\* the alignment helpers are applied to the offsets up to this one
MaxOffset == 80

\* ------------------------------------------------------- requests, configs

\* ChunkedAllocator::new(chunks_per_block, min_chunk_size, max_chunk_size, id)
PoolConfigs ==
    { [id |-> 0, chunks_per_block |-> 2, min_chunk_size |-> 256, max_chunk_size |-> 1024],
      [id |-> 0, chunks_per_block |-> 4, min_chunk_size |-> 256, max_chunk_size |-> 4096] }

\* The requests of the caller to a pool: one of each of the two smallest size
\* classes, one of the largest class, one above max_chunk_size, size 0, an
\* alignment above the chunk size, a type mask without the pool's bit. A type
\* mask is the set of the bits that are set.
Requirements(self) ==
    { [size |-> s, alignment |-> 64, type_mask |-> {self.id}] :
        s \in {0, self.min_chunk_size - 56, self.min_chunk_size + 44,
               self.max_chunk_size, self.max_chunk_size + 904} }
    \cup { [size |-> self.min_chunk_size - 56, alignment |-> 512, type_mask |-> {self.id}],
           [size |-> self.min_chunk_size - 56, alignment |-> 64, type_mask |-> {self.id + 1}] }

\* `let v = value; body(v)`: the value is computed once
Bind(value, body(_)) == CHOOSE r \in { body(v) : v \in {value} } : TRUE

\* ------------------------------------------------------------ lib.rs helpers

\* mutant of BitOr: the operands are added
BitOr_added(a, b) == a + b

RECURSIVE BitOr(_, _)
\* u64 `|`
BitOr(a, b) ==
    IF a = 0 THEN b
    ELSE IF b = 0 THEN a
    ELSE (IF (a % 2 = 1) \/ (b % 2 = 1) THEN 1 ELSE 0) + 2 * BitOr(a \div 2, b \div 2)

\* mutant of shift_for_alignment: the offset is not rounded up
shift_for_alignment_none(alignment, offset) == offset

\* lib.rs:237-246
shift_for_alignment(alignment, offset) ==
    IF offset > 0 /\ alignment > 0
    THEN BitOr(offset - 1, alignment - 1) + 1
    ELSE offset

\* lib.rs:229-234
alignment_shift(alignment, offset) == shift_for_alignment(alignment, offset) - offset

\* Block::size()
BlockSize(block) == block.end - block.start

\* ------------------------------------------------------------------- owner

\* What one call of owner.alloc may do: fail, or return a block of a fresh memory
\* object. The block starts at `start`; a roomy one is longer than asked by the
\* aligned start, so that `size` bytes follow the aligned start.
OwnerOutcomes ==
    { [res |-> e, start |-> 0, roomy |-> FALSE] : e \in {"OutOfMemory", "TooManyObjects"} }
    \cup { [res |-> "Ok", start |-> 0, roomy |-> FALSE] }
    \cup { [res |-> "Ok", start |-> s, roomy |-> TRUE] : s \in {768} }

NewOwner == [live |-> {}, next |-> 0, freed |-> {}, stray |-> FALSE]

\* MemoryAllocator::alloc of the owner
Owner_alloc(own, reqs, oc) ==
    IF oc.res # "Ok" \/ own.next >= MaxOwnerBlocks
    THEN [owner |-> own,
          res |-> IF oc.res = "Ok" THEN "TooManyObjects" ELSE oc.res,
          block |-> {}]
    ELSE Bind([memory |-> own.next, start |-> oc.start,
               end |-> oc.start + reqs.size
                       + (IF oc.roomy THEN shift_for_alignment(reqs.alignment, oc.start) ELSE 0),
               tag |-> 0],
              LAMBDA block :
                [owner |-> [own EXCEPT !.live = @ \cup {block}, !.next = @ + 1],
                 res |-> "Ok",
                 block |-> {block}])

\* MemoryAllocator::free of the owner; `stray` records a free of a block that is
\* not outstanding (a double free)
Owner_free(own, block) ==
    [own EXCEPT !.live = @ \ {block},
                !.freed = @ \cup {block},
                !.stray = @ \/ (block \notin own.live)]

RECURSIVE Owner_free_all(_, _)
Owner_free_all(own, blocks) ==
    IF blocks = <<>> THEN own
    ELSE Owner_free_all(Owner_free(own, Head(blocks)), Tail(blocks))

\* ------------------------------------------------------------- ChunkedNode

\* chunked.rs:22-30
ChunkedNode_new(chunk_size, chunks_per_block, id) ==
    [id |-> id, chunk_size |-> chunk_size, chunks_per_block |-> chunks_per_block,
     free |-> <<>>, blocks |-> <<>>]

\* mutant of ChunkedNode_count: the superblocks are counted, not their chunks
ChunkedNode_count_blocks(node) == Len(node.blocks)

\* chunked.rs:32-34
ChunkedNode_count(node) == Len(node.blocks) * node.chunks_per_block

\* chunked.rs:106-108
ChunkedNode_is_unused(node) == ChunkedNode_count(node) = Len(node.free)

\* mutant of FreshEntries: the entries are pushed in descending chunk order
FreshEntries_descending(node) ==
    [i \in 1 .. node.chunks_per_block |-> <<Len(node.blocks), node.chunks_per_block - i>>]

\* chunked.rs:47-49, the entries pushed for a new superblock
FreshEntries(node) ==
    [i \in 1 .. node.chunks_per_block |-> <<Len(node.blocks), i - 1>>]

\* chunked.rs:37-41
GrowRequirements(node) ==
    [type_mask |-> {node.id},
     size |-> node.chunk_size * node.chunks_per_block,
     alignment |-> node.chunk_size]

\* chunked.rs:43-52, with the owner's block in hand. The subtraction of line 45
\* going below zero is taken as a panic (a debug build); no owner of the
\* specifications below returns a block shorter than its aligned start.
ChunkedNode_grow_with(node, block) ==
    Bind(shift_for_alignment(node.chunk_size, block.start), LAMBDA offset :
        IF ~(BlockSize(block) >= offset
             /\ node.chunks_per_block <= (BlockSize(block) - offset) \div node.chunk_size)
        THEN [node |-> node, res |-> "Panic"]
        ELSE [node |-> [node EXCEPT
                          !.free = @ \o FreshEntries(node),
                          !.blocks = Append(@, [block |-> block, offset |-> offset])],
              res |-> "Ok"])

\* mutant of ChunkedNode_grow: the free list is extended before the owner is asked
ChunkedNode_grow_early(node, own, oc) ==
    Bind(Owner_alloc(own, GrowRequirements(node), oc), LAMBDA got :
        IF got.res # "Ok"
        THEN [node |-> [node EXCEPT !.free = @ \o FreshEntries(node)],
              owner |-> got.owner, res |-> got.res,
              asked |-> <<GrowRequirements(node)>>]
        ELSE Bind(ChunkedNode_grow_with(node, CHOOSE b \in got.block : TRUE), LAMBDA grown :
                [node |-> grown.node, owner |-> got.owner, res |-> grown.res,
                 asked |-> <<GrowRequirements(node)>>]))

\* chunked.rs:36-53; res is "Ok", the owner's error, or "Panic" (line 45)
ChunkedNode_grow(node, own, oc) ==
    Bind(Owner_alloc(own, GrowRequirements(node), oc), LAMBDA got :
        IF got.res # "Ok"
        THEN [node |-> node, owner |-> got.owner, res |-> got.res,
              asked |-> <<GrowRequirements(node)>>]
        ELSE Bind(ChunkedNode_grow_with(node, CHOOSE b \in got.block : TRUE), LAMBDA grown :
                [node |-> grown.node, owner |-> got.owner, res |-> grown.res,
                 asked |-> <<GrowRequirements(node)>>]))

\* chunked.rs:57, where the chunk starts
ChunkOffset(node, block_index, chunk_index) ==
    node.blocks[block_index + 1].offset + chunk_index * node.chunk_size

\* mutant of ChunkedNode_alloc_no_grow: the entry stays in the free list
ChunkedNode_alloc_no_grow_kept(node) ==
    IF node.free = <<>>
    THEN [node |-> node, block |-> {}]
    ELSE Bind(ChunkOffset(node, Head(node.free)[1], Head(node.free)[2]), LAMBDA offset :
            [node |-> node,
             block |-> {[memory |-> node.blocks[Head(node.free)[1] + 1].block.memory,
                         start |-> offset,
                         end |-> node.chunk_size + offset,
                         tag |-> Head(node.free)[1]]}])

\* chunked.rs:55-64; block is the empty set when the free list is empty
ChunkedNode_alloc_no_grow(node) ==
    IF node.free = <<>>
    THEN [node |-> node, block |-> {}]
    ELSE Bind(ChunkOffset(node, Head(node.free)[1], Head(node.free)[2]), LAMBDA offset :
            [node |-> [node EXCEPT !.free = Tail(@)],
             block |-> {[memory |-> node.blocks[Head(node.free)[1] + 1].block.memory,
                         start |-> offset,
                         end |-> node.chunk_size + offset,
                         tag |-> Head(node.free)[1]]}])

\* chunked.rs:91-92, the grow and the second pop
ChunkedNode_alloc_grow(node, own, oc) ==
    Bind(ChunkedNode_grow(node, own, oc), LAMBDA grown :
        IF grown.res # "Ok"
        THEN [node |-> grown.node, owner |-> grown.owner, res |-> grown.res,
              block |-> {}, asked |-> grown.asked]
        ELSE Bind(ChunkedNode_alloc_no_grow(grown.node), LAMBDA second :
                [node |-> second.node, owner |-> grown.owner,
                 res |-> IF second.block = {} THEN "Panic" ELSE "Ok",
                 block |-> second.block, asked |-> grown.asked]))

\* chunked.rs:76-94
ChunkedNode_alloc(node, own, reqs, oc) ==
    IF node.id \notin reqs.type_mask
    THEN [node |-> node, owner |-> own, res |-> "NoCompatibleMemoryType", block |-> {}, asked |-> <<>>]
    ELSE IF ~(node.chunk_size >= reqs.size) \/ ~(node.chunk_size >= reqs.alignment)
    THEN [node |-> node, owner |-> own, res |-> "Panic", block |-> {}, asked |-> <<>>]
    ELSE IF node.free # <<>>
    THEN Bind(ChunkedNode_alloc_no_grow(node), LAMBDA first :
            [node |-> first.node, owner |-> own, res |-> "Ok", block |-> first.block,
             asked |-> <<>>])
    ELSE ChunkedNode_alloc_grow(node, own, oc)

\* mutant of PushFreed: the freed chunk goes to the back of the free list
PushFreed_back(free, entry) == free \o <<entry>>

\* chunked.rs:103, where the freed chunk goes in the free list
PushFreed(free, entry) == <<entry>> \o free

\* chunked.rs:96-104; res is "Ok" or "Panic" (the assertions, an index out of
\* bounds, a subtraction below zero)
ChunkedNode_free(node, block) ==
    IF block.start % node.chunk_size # 0 \/ BlockSize(block) # node.chunk_size
    THEN [node |-> node, res |-> "Panic"]
    ELSE IF block.tag + 1 > Len(node.blocks)
    THEN [node |-> node, res |-> "Panic"]
    ELSE IF block.start < node.blocks[block.tag + 1].offset
    THEN [node |-> node, res |-> "Panic"]
    ELSE [node |-> [node EXCEPT !.free =
                      PushFreed(@, <<block.tag,
                                     (block.start - node.blocks[block.tag + 1].offset)
                                         \div node.chunk_size>>)],
          res |-> "Ok"]

\* chunked.rs:112-114, the superblocks handed back to the owner
NodeSuperblocks(node) == [i \in 1 .. Len(node.blocks) |-> node.blocks[i].block]

\* chunked.rs:110-119; res is "Ok" or "Err" (the node comes back unchanged)
ChunkedNode_dispose(node, own) ==
    IF ChunkedNode_is_unused(node)
    THEN [node |-> [node EXCEPT !.blocks = <<>>],
          owner |-> Owner_free_all(own, NodeSuperblocks(node)), res |-> "Ok"]
    ELSE [node |-> node, owner |-> own, res |-> "Err"]

\* -------------------------------------------------------- ChunkedAllocator

\* chunked.rs:145-153
ChunkedAllocator_new(chunks_per_block, min_chunk_size, max_chunk_size, id) ==
    [id |-> id, chunks_per_block |-> chunks_per_block,
     min_chunk_size |-> min_chunk_size, max_chunk_size |-> max_chunk_size,
     nodes |-> <<>>]

RECURSIVE BitLength(_)
\* bits - leading_zeros(x): the number of bits of x
BitLength(x) == IF x = 0 THEN 0 ELSE 1 + BitLength(x \div 2)

\* mutant of pick_node: the size is not reduced by one before the division
pick_node_of_size(self, size) == BitLength(size \div self.min_chunk_size)

\* chunked.rs:175-180, for size # 0 (line 178 panics on 0)
pick_node(self, size) == BitLength((size - 1) \div self.min_chunk_size)

\* chunked.rs:191
chunk_size(self, index) == self.min_chunk_size * (2 ^ index)

\* chunked.rs:182-197; res is "Ok" or "Panic" (line 192)
ChunkedAllocator_grow(self, size) ==
    IF ~(chunk_size(self, size) <= self.max_chunk_size)
    THEN [self |-> self, res |-> "Panic"]
    ELSE LET len == Len(self.nodes)
         IN  [self |-> [self EXCEPT !.nodes =
                          @ \o [k \in 1 .. (size + 1 - len) |->
                                  ChunkedNode_new(chunk_size(self, len + k - 1),
                                                  self.chunks_per_block, self.id)]],
              res |-> "Ok"]

\* chunked.rs:220, the index the node array is grown to
GrowTarget(index) == index + 1

\* chunked.rs:221, the request handed to node `index` of the grown array
ChunkedAllocator_alloc_in(self, index, own, reqs, oc) ==
    Bind(ChunkedNode_alloc(self.nodes[index + 1], own, reqs, oc), LAMBDA got :
        [self |-> [self EXCEPT !.nodes[index + 1] = got.node],
         owner |-> got.owner, res |-> got.res, block |-> got.block,
         asked |-> got.asked, index |-> index])

\* chunked.rs:219-221
ChunkedAllocator_alloc_at(self, index, own, reqs, oc) ==
    Bind(ChunkedAllocator_grow(self, GrowTarget(index)), LAMBDA grown :
        IF grown.res # "Ok"
        THEN [self |-> self, owner |-> own, res |-> "Panic", block |-> {},
              asked |-> <<>>, index |-> -1]
        ELSE ChunkedAllocator_alloc_in(grown.self, index, own, reqs, oc))

\* chunked.rs:209-222; index is the node the request went to, or -1
ChunkedAllocator_alloc(self, own, reqs, oc) ==
    IF reqs.size > self.max_chunk_size
    THEN [self |-> self, owner |-> own, res |-> "OutOfMemory", block |-> {},
          asked |-> <<>>, index |-> -1]
    ELSE IF reqs.size = 0
    THEN [self |-> self, owner |-> own, res |-> "Panic", block |-> {},
          asked |-> <<>>, index |-> -1]
    ELSE Bind(pick_node(self, reqs.size), LAMBDA index :
            ChunkedAllocator_alloc_at(self, index, own, reqs, oc))

\* chunked.rs:226
ChunkedAllocator_free_in(self, index, block) ==
    IF index + 1 > Len(self.nodes)
    THEN [self |-> self, res |-> "Panic", index |-> -1]
    ELSE Bind(ChunkedNode_free(self.nodes[index + 1], block), LAMBDA got :
            [self |-> [self EXCEPT !.nodes[index + 1] = got.node],
             res |-> got.res, index |-> index])

\* chunked.rs:224-227
ChunkedAllocator_free(self, block) ==
    IF BlockSize(block) = 0
    THEN [self |-> self, res |-> "Panic", index |-> -1]
    ELSE Bind(pick_node(self, BlockSize(block)), LAMBDA index :
            ChunkedAllocator_free_in(self, index, block))

\* mutant of ChunkedAllocator_is_unused: one unused node is enough
ChunkedAllocator_is_unused_any(self) ==
    \E i \in 1 .. Len(self.nodes) : ChunkedNode_is_unused(self.nodes[i])

\* chunked.rs:229-231
ChunkedAllocator_is_unused(self) ==
    \A i \in 1 .. Len(self.nodes) : ChunkedNode_is_unused(self.nodes[i])

RECURSIVE DisposeNodes(_, _)
\* chunked.rs:235-237, the nodes disposed one after the other
DisposeNodes(nodes, own) ==
    IF nodes = <<>> THEN [owner |-> own, res |-> "Ok"]
    ELSE Bind(ChunkedNode_dispose(Head(nodes), own), LAMBDA got :
            IF got.res # "Ok"
            THEN [owner |-> got.owner, res |-> "Panic"]
            ELSE DisposeNodes(Tail(nodes), got.owner))

\* chunked.rs:233-242; res is "Ok", "Err" (self comes back) or "Panic" (unwrap)
ChunkedAllocator_dispose(self, own) ==
    IF ChunkedAllocator_is_unused(self)
    THEN Bind(DisposeNodes(self.nodes, own), LAMBDA got :
            [self |-> [self EXCEPT !.nodes = <<>>], owner |-> got.owner, res |-> got.res])
    ELSE [self |-> self, owner |-> own, res |-> "Err"]

\* ---------------------------------------------------------- RootAllocator

\* RootAllocator::alloc may fail, or return a whole fresh memory object
RootOutcomes ==
    { [res |-> e, start |-> 0, roomy |-> FALSE] :
        e \in {"OutOfMemory", "TooManyObjects", "Ok"} }

\* RootAllocator::new
RootAllocator_new == NewOwner

\* RootAllocator::is_used
RootAllocator_is_used(self) == self.live # {}

\* RootAllocator::dispose; res is "Ok" or "Err"
RootAllocator_dispose(self) ==
    [self |-> self, res |-> IF RootAllocator_is_used(self) THEN "Err" ELSE "Ok"]

\* --------------------------------------------------------- ArenaAllocator

\* ArenaAllocator::new
ArenaAllocator_new(arena_size, id) == [id |-> id, arena_size |-> arena_size, nodes |-> <<>>]

\* the place of a request in the newest arena, its end if it does not fit
ArenaFit(self, reqs) ==
    IF self.nodes = <<>> THEN [fits |-> FALSE, offset |-> 0]
    ELSE Bind(shift_for_alignment(reqs.alignment, self.nodes[Len(self.nodes)].used),
              LAMBDA offset :
                [fits |-> offset + reqs.size <= self.nodes[Len(self.nodes)].block.end,
                 offset |-> offset])

\* a block cut from the newest arena at `offset`, tagged with the arena's index
ArenaCut(self, own, reqs, offset) ==
    [self |-> [self EXCEPT !.nodes[Len(self.nodes)].used = offset + reqs.size,
                           !.nodes[Len(self.nodes)].live = @ + 1],
     owner |-> own, res |-> "Ok",
     block |-> {[memory |-> self.nodes[Len(self.nodes)].block.memory,
                 start |-> offset, end |-> offset + reqs.size,
                 tag |-> Len(self.nodes) - 1]}]

\* a new arena is taken from the owner and the block is cut from it
ArenaGrow(self, own, reqs, oc) ==
    Bind(Owner_alloc(own, [type_mask |-> {self.id}, size |-> self.arena_size,
                           alignment |-> reqs.alignment], oc),
         LAMBDA got :
            IF got.res # "Ok"
            THEN [self |-> self, owner |-> got.owner, res |-> got.res, block |-> {}]
            ELSE Bind(CHOOSE b \in got.block : TRUE, LAMBDA arena :
                    ArenaCut([self EXCEPT !.nodes =
                                Append(@, [block |-> arena, used |-> arena.start, live |-> 0])],
                             got.owner, reqs,
                             shift_for_alignment(reqs.alignment, arena.start))))

\* ArenaAllocator::alloc
ArenaAllocator_alloc(self, own, reqs, oc) ==
    IF self.id \notin reqs.type_mask
    THEN [self |-> self, owner |-> own, res |-> "NoCompatibleMemoryType", block |-> {}]
    ELSE IF reqs.size > self.arena_size
    THEN [self |-> self, owner |-> own, res |-> "OutOfMemory", block |-> {}]
    ELSE Bind(ArenaFit(self, reqs), LAMBDA fit :
            IF fit.fits
            THEN ArenaCut(self, own, reqs, fit.offset)
            ELSE ArenaGrow(self, own, reqs, oc))

\* ArenaAllocator::free
ArenaAllocator_free(self, block) ==
    IF block.tag + 1 > Len(self.nodes)
    THEN [self |-> self, res |-> "Panic"]
    ELSE IF self.nodes[block.tag + 1].live = 0
    THEN [self |-> self, res |-> "Panic"]
    ELSE [self |-> [self EXCEPT !.nodes[block.tag + 1].live = @ - 1], res |-> "Ok"]

\* ArenaAllocator::is_used
ArenaAllocator_is_used(self) == \E i \in 1 .. Len(self.nodes) : self.nodes[i].live > 0

\* ArenaAllocator::dispose; res is "Ok" or "Err"
ArenaAllocator_dispose(self, own) ==
    IF ArenaAllocator_is_used(self)
    THEN [self |-> self, owner |-> own, res |-> "Err"]
    ELSE [self |-> [self EXCEPT !.nodes = <<>>],
          owner |-> Owner_free_all(own, [i \in 1 .. Len(self.nodes) |-> self.nodes[i].block]),
          res |-> "Ok"]

\* ------------------------------------------------------ CombinedAllocator

\* combined.rs:57-75
CombinedAllocator_new(memory_type_id, arena_size, blocks_per_chunk, min_block_size, max_chunk_size) ==
    [root |-> RootAllocator_new,
     arenas |-> ArenaAllocator_new(arena_size, memory_type_id),
     chunks |-> ChunkedAllocator_new(blocks_per_chunk, min_block_size, max_chunk_size,
                                     memory_type_id),
     allocations |-> 0]

\* combined.rs:99, 104, 107: the block wrapped with its provenance tag
CombinedBlock(blocks, kind) ==
    { [b EXCEPT !.tag = [kind |-> kind, tag |-> b.tag]] : b \in blocks }

\* combined.rs:120, 124, 126: the block as its sub-allocator issued it
Unwrapped(block) == [block EXCEPT !.tag = block.tag.tag]

\* mutant of Route: a request of exactly max_chunk_size goes to Root
Route_at_max(self, request, reqs) ==
    IF request = "ShortLived" THEN "Arena"
    ELSE IF reqs.size >= self.chunks.max_chunk_size THEN "Root"
    ELSE "Chunked"

\* combined.rs:96-100, 105-106: which way a request goes
Route(self, request, reqs) ==
    IF request = "ShortLived" THEN "Arena"
    ELSE IF reqs.size > self.chunks.max_chunk_size THEN "Root"
    ELSE "Chunked"

\* combined.rs:96-111, the sub-allocator's answer with the block wrapped
CombinedAllocator_alloc_from(self, route, reqs, oc) ==
    IF route = "Arena"
    THEN Bind(ArenaAllocator_alloc(self.arenas, self.root, reqs, oc), LAMBDA got :
            [self |-> [self EXCEPT !.arenas = got.self, !.root = got.owner],
             res |-> got.res, block |-> CombinedBlock(got.block, "Arena")])
    ELSE IF route = "Root"
    THEN Bind(Owner_alloc(self.root, reqs, oc), LAMBDA got :
            [self |-> [self EXCEPT !.root = got.owner],
             res |-> got.res, block |-> CombinedBlock(got.block, "Root")])
    ELSE Bind(ChunkedAllocator_alloc(self.chunks, self.root, reqs, oc), LAMBDA got :
            [self |-> [self EXCEPT !.chunks = got.self, !.root = got.owner],
             res |-> got.res, block |-> CombinedBlock(got.block, "Chunked")])

\* combined.rs:90-114
CombinedAllocator_alloc(self, request, reqs, oc) ==
    Bind(CombinedAllocator_alloc_from(self, Route(self, request, reqs), reqs, oc),
         LAMBDA got :
            IF got.res # "Ok"
            THEN got
            ELSE [got EXCEPT !.self.allocations = @ + 1])

\* combined.rs:117-127, the block handed to the sub-allocator its tag names
CombinedAllocator_free_to(self, block) ==
    IF block.tag.kind = "Arena"
    THEN Bind(ArenaAllocator_free(self.arenas, Unwrapped(block)), LAMBDA got :
            [self |-> [self EXCEPT !.arenas = got.self], res |-> got.res])
    ELSE IF block.tag.kind = "Chunked"
    THEN Bind(ChunkedAllocator_free(self.chunks, Unwrapped(block)), LAMBDA got :
            [self |-> [self EXCEPT !.chunks = got.self], res |-> got.res])
    ELSE [self |-> [self EXCEPT !.root = Owner_free(@, Unwrapped(block))], res |-> "Ok"]

\* combined.rs:116-129; line 128 panics below zero
CombinedAllocator_free(self, block) ==
    Bind(CombinedAllocator_free_to(self, block), LAMBDA got :
        IF got.res # "Ok" \/ got.self.allocations = 0
        THEN [self |-> got.self, res |-> "Panic"]
        ELSE [self |-> [got.self EXCEPT !.allocations = @ - 1], res |-> "Ok"])

\* combined.rs:131-138; "Panic" is the debug assertion of line 133, where
\* chunks.is_used() is the negation of chunked.rs:229 is_unused()
CombinedAllocator_is_used(self) ==
    IF self.allocations = 0
    THEN IF ~(~ArenaAllocator_is_used(self.arenas) /\ ChunkedAllocator_is_unused(self.chunks))
         THEN "Panic"
         ELSE "true"
    ELSE "false"

\* combined.rs:146
CombinedAllocator_dispose_root(self, trail) ==
    Bind(RootAllocator_dispose(self.root), LAMBDA r :
        [self |-> self,
         res |-> IF r.res = "Ok" THEN "Ok" ELSE "Panic",
         trail |-> Append(trail, [who |-> "root", res |-> r.res,
                                  outstanding |-> Cardinality(self.root.live)])])

\* combined.rs:145-146
CombinedAllocator_dispose_chunks(self, trail) ==
    Bind(ChunkedAllocator_dispose(self.chunks, self.root), LAMBDA c :
        IF c.res # "Ok"
        THEN [self |-> self, res |-> "Panic",
              trail |-> Append(trail, [who |-> "chunks", res |-> c.res,
                                       outstanding |-> Cardinality(self.root.live)])]
        ELSE CombinedAllocator_dispose_root(
                 [self EXCEPT !.chunks = c.self, !.root = c.owner],
                 Append(trail, [who |-> "chunks", res |-> c.res,
                                outstanding |-> Cardinality(self.root.live)])))

\* combined.rs:140-148; res is "Ok", "Err" (self comes back) or "Panic" (unwrap);
\* trail lists the sub-allocators disposed, in order, each with its result and the
\* number of blocks Root had outstanding when it was called
CombinedAllocator_dispose(self) ==
    IF CombinedAllocator_is_used(self) = "Panic"
    THEN [self |-> self, res |-> "Panic", trail |-> <<>>]
    ELSE IF CombinedAllocator_is_used(self) = "true"
    THEN [self |-> self, res |-> "Err", trail |-> <<>>]
    ELSE Bind(ArenaAllocator_dispose(self.arenas, self.root), LAMBDA a :
            IF a.res # "Ok"
            THEN [self |-> self, res |-> "Panic",
                  trail |-> <<[who |-> "arenas", res |-> a.res,
                               outstanding |-> Cardinality(self.root.live)]>>]
            ELSE CombinedAllocator_dispose_chunks(
                     [self EXCEPT !.arenas = a.self, !.root = a.owner],
                     <<[who |-> "arenas", res |-> a.res,
                        outstanding |-> Cardinality(self.root.live)]>>))

\* --------------------------------------------------------- SmartAllocator

\* smart.rs:14-16. `self.size - self.used` below zero panics where overflow is
\* checked and wraps where it is not (`wraps`); a wrapped value is 2^64 more than
\* `value`.
Heap_available(heap, wraps) ==
    IF heap.used <= heap.size
    THEN [res |-> "Ok", value |-> heap.size - heap.used, wrapped |-> FALSE]
    ELSE IF wraps
    THEN [res |-> "Ok", value |-> heap.size - heap.used, wrapped |-> TRUE]
    ELSE [res |-> "Panic", value |-> 0, wrapped |-> FALSE]

\* smart.rs:99-100, `available() >= need`; a wrapped value is above every need
\* below 2^63
HasRoom(available, need) == available.wrapped \/ available.value >= need

\* smart.rs:18-20
Heap_alloc(heap, size) == [heap EXCEPT !.used = @ + size]

\* mutant of Heap_free: nothing is subtracted
Heap_free_nothing(heap, size, wraps) == [heap |-> heap, res |-> "Ok"]

\* smart.rs:22-24; below zero as in Heap_available, a negative `used` standing
\* for the wrapped one
Heap_free(heap, size, wraps) ==
    IF size > heap.used /\ ~wraps
    THEN [heap |-> heap, res |-> "Panic"]
    ELSE [heap |-> [heap EXCEPT !.used = @ - size], res |-> "Ok"]

\* smart.rs:41-72; memory_properties is [memory_types, memory_heaps], a memory
\* type is [properties, heap_index] and the properties are a set of flags
SmartAllocator_new(memory_properties, arena_size, chunks_per_block, min_chunk_size, max_chunk_size) ==
    [allocators |->
        [k \in 1 .. Len(memory_properties.memory_types) |->
            [memory_type |-> memory_properties.memory_types[k],
             allocator |-> CombinedAllocator_new(k - 1, arena_size, chunks_per_block,
                                                 min_chunk_size, max_chunk_size)]],
     heaps |->
        [k \in 1 .. Len(memory_properties.memory_heaps) |->
            [size |-> memory_properties.memory_heaps[k], used |-> 0]]]

\* smart.rs:94-95, the first filter
MaskAndProperties(self, index, prop, reqs) ==
    /\ index \in reqs.type_mask
    /\ prop \subseteq self.allocators[index + 1].memory_type.properties

\* smart.rs:99, the heap of memory type `index`
HeapOf(self, index) == self.heaps[self.allocators[index + 1].memory_type.heap_index + 1]

\* mutant of SelectionError: the matches of mask and properties are not counted
SelectionError_uncounted(compatible_count) == "OutOfMemory"

\* smart.rs:103-107
SelectionError(compatible_count) ==
    IF compatible_count = 0 THEN "NoCompatibleMemoryType" ELSE "OutOfMemory"

RECURSIVE FirstSurvivor(_, _, _, _, _, _)
\* smart.rs:91-107: the two filters run over the memory types from `index` on,
\* until the first survivor; res is "Ok" with the survivor's index, the error of
\* lines 103-107, or "Panic" (line 15)
FirstSurvivor(self, prop, reqs, wraps, index, compatible_count) ==
    IF index >= Len(self.allocators)
    THEN [res |-> SelectionError(compatible_count),
          index |-> -1, compatible_count |-> compatible_count]
    ELSE IF ~MaskAndProperties(self, index, prop, reqs)
    THEN FirstSurvivor(self, prop, reqs, wraps, index + 1, compatible_count)
    ELSE Bind(Heap_available(HeapOf(self, index), wraps), LAMBDA available :
            IF available.res # "Ok"
            THEN [res |-> "Panic", index |-> -1, compatible_count |-> compatible_count + 1]
            ELSE IF HasRoom(available, reqs.size + reqs.alignment)
            THEN [res |-> "Ok", index |-> index, compatible_count |-> compatible_count + 1]
            ELSE FirstSurvivor(self, prop, reqs, wraps, index + 1, compatible_count + 1))

\* smart.rs:112, the block with the memory type's index pushed on its tag
SmartBlock(block, index) == [block EXCEPT !.tag = [index |-> index, tag |-> block.tag]]

\* smart.rs:116, the block as the dispatcher issued it
PoppedTag(block) == [block EXCEPT !.tag = block.tag.tag]

\* mutant of SmartAllocator_alloc_at: the heap is charged before the dispatcher
\* is asked, and stays charged when it fails
SmartAllocator_alloc_at_charged(self, index, ty, reqs, oc) ==
    Bind(CombinedAllocator_alloc(self.allocators[index + 1].allocator, ty, reqs, oc),
         LAMBDA got :
            IF got.res # "Ok"
            THEN [self |-> [self EXCEPT
                              !.allocators[index + 1].allocator = got.self,
                              !.heaps[self.allocators[index + 1].memory_type.heap_index + 1] =
                                  Heap_alloc(@, reqs.size)],
                  res |-> got.res, block |-> {}, index |-> index]
            ELSE Bind(CHOOSE b \in got.block : TRUE, LAMBDA block :
                    [self |-> [self EXCEPT
                                 !.allocators[index + 1].allocator = got.self,
                                 !.heaps[self.allocators[index + 1].memory_type.heap_index + 1] =
                                     Heap_alloc(@, BlockSize(block))],
                     res |-> "Ok", block |-> {SmartBlock(block, index)}, index |-> index]))

\* smart.rs:109-112, with the memory type chosen
SmartAllocator_alloc_at(self, index, ty, reqs, oc) ==
    Bind(CombinedAllocator_alloc(self.allocators[index + 1].allocator, ty, reqs, oc),
         LAMBDA got :
            IF got.res # "Ok"
            THEN [self |-> [self EXCEPT !.allocators[index + 1].allocator = got.self],
                  res |-> got.res, block |-> {}, index |-> index]
            ELSE Bind(CHOOSE b \in got.block : TRUE, LAMBDA block :
                    [self |-> [self EXCEPT
                                 !.allocators[index + 1].allocator = got.self,
                                 !.heaps[self.allocators[index + 1].memory_type.heap_index + 1] =
                                     Heap_alloc(@, BlockSize(block))],
                     res |-> "Ok", block |-> {SmartBlock(block, index)}, index |-> index]))

\* smart.rs:82-113; the request is (ty, prop); index is the memory type chosen,
\* or -1
SmartAllocator_alloc(self, ty, prop, reqs, wraps, oc) ==
    Bind(FirstSurvivor(self, prop, reqs, wraps, 0, 0), LAMBDA first :
        IF first.res # "Ok"
        THEN [self |-> self, res |-> first.res, block |-> {}, index |-> -1]
        ELSE SmartAllocator_alloc_at(self, first.index, ty, reqs, oc))

\* smart.rs:118
SmartAllocator_free_in(self, index, block) ==
    Bind(CombinedAllocator_free(self.allocators[index + 1].allocator, block), LAMBDA got :
        [self |-> [self EXCEPT !.allocators[index + 1].allocator = got.self],
         res |-> got.res])

\* smart.rs:115-119; res is "Ok" or "Panic"
SmartAllocator_free(self, block, wraps) ==
    IF block.tag.index + 1 > Len(self.allocators)
    THEN [self |-> self, res |-> "Panic"]
    ELSE Bind(Heap_free(HeapOf(self, block.tag.index), BlockSize(block), wraps), LAMBDA freed :
            IF freed.res # "Ok"
            THEN [self |-> self, res |-> "Panic"]
            ELSE SmartAllocator_free_in(
                     [self EXCEPT
                        !.heaps[self.allocators[block.tag.index + 1].memory_type.heap_index + 1] =
                            freed.heap],
                     block.tag.index, PoppedTag(block)))

\* smart.rs:122 calls is_unused() on a dispatcher: the negation of its
\* is_used(), combined.rs:131-138
CombinedAllocator_is_unused(self) ==
    IF CombinedAllocator_is_used(self) = "Panic" THEN "Panic"
    ELSE IF CombinedAllocator_is_used(self) = "true" THEN "false"
    ELSE "true"

RECURSIVE AllUnused(_)
\* smart.rs:122, `all` over the dispatchers in order, stopping at the first that
\* is in use
AllUnused(allocators) ==
    IF allocators = <<>> THEN "true"
    ELSE IF CombinedAllocator_is_unused(Head(allocators).allocator) # "true"
    THEN CombinedAllocator_is_unused(Head(allocators).allocator)
    ELSE AllUnused(Tail(allocators))

\* smart.rs:121-123; "true", "false" or "Panic"
SmartAllocator_is_unused(self) == AllUnused(self.allocators)

RECURSIVE DisposeAllocators(_, _)
\* smart.rs:127-129, the dispatchers disposed one after the other; `done` counts
\* those disposed
DisposeAllocators(allocators, done) ==
    IF allocators = <<>> THEN [res |-> "Ok", done |-> done]
    ELSE Bind(CombinedAllocator_dispose(Head(allocators).allocator), LAMBDA got :
            IF got.res # "Ok"
            THEN [res |-> "Panic", done |-> done]
            ELSE DisposeAllocators(Tail(allocators), done + 1))

\* smart.rs:125-134; res is "Ok", "Err" (self comes back) or "Panic" (the
\* unwrap of line 128, the assertion of combined.rs:133)
SmartAllocator_dispose(self) ==
    IF SmartAllocator_is_unused(self) = "Panic"
    THEN [self |-> self, res |-> "Panic", done |-> 0]
    ELSE IF SmartAllocator_is_unused(self) = "false"
    THEN [self |-> self, res |-> "Err", done |-> 0]
    ELSE Bind(DisposeAllocators(self.allocators, 0), LAMBDA got :
            [self |-> [self EXCEPT !.allocators = <<>>], res |-> got.res, done |-> got.done])

\* a selector with no memory type, where the selector is not in use
NoSmart == SmartAllocator_new([memory_types |-> <<>>, memory_heaps |-> <<>>], 512, 2, 256, 1024)

\* ---------------------------------------------- the Chunked pool in use

NoReqs == [size |-> 0, alignment |-> 0, type_mask |-> {}]

Outcome(res) == IF res = "Panic" THEN "panicked" ELSE "live"

InitChunked ==
    /\ \E c \in PoolConfigs :
          chunks = ChunkedAllocator_new(c.chunks_per_block, c.min_chunk_size,
                                        c.max_chunk_size, c.id)
    /\ owner = NewOwner
    /\ combined = CombinedAllocator_new(0, 512, 2, 256, 1024)
    /\ smart = NoSmart
    /\ held = {}
    /\ allocs = 0
    /\ frees = 0
    /\ issued = {}
    /\ status = "live"
    /\ ev = [op |-> "new", reqs |-> NoReqs, res |-> "Ok", block |-> {}, index |-> -1,
             asked |-> <<>>, free_before |-> -1, freed_before |-> {}]

\* the block freed by the last operation, when that was a free on node `index`
FreedJustNow(index) ==
    IF ev.op = "free" /\ ev.res = "Ok" /\ ev.index = index THEN ev.block ELSE {}

\* the caller calls ChunkedAllocator::alloc
ChunkedAlloc ==
    /\ status = "live"
    /\ allocs < MaxAllocs
    /\ Cardinality(held) < MaxHeld
    /\ \E reqs \in Requirements(chunks) :
       \E oc \in OwnerOutcomes :
       \E got \in {ChunkedAllocator_alloc(chunks, owner, reqs, oc)} :
              /\ chunks' = got.self
              /\ owner' = got.owner
              /\ combined' = combined
              /\ smart' = smart
              /\ held' = held \cup got.block
              /\ allocs' = IF got.res = "Ok" THEN allocs + 1 ELSE allocs
              /\ frees' = frees
              /\ issued' = issued \cup got.block
              /\ status' = Outcome(got.res)
              /\ ev' = [op |-> "alloc", reqs |-> reqs, res |-> got.res,
                        block |-> got.block, index |-> got.index, asked |-> got.asked,
                        free_before |-> IF got.index >= 0 /\ got.index < Len(chunks.nodes)
                                        THEN Len(chunks.nodes[got.index + 1].free)
                                        ELSE IF got.index >= 0 THEN 0 ELSE -1,
                        freed_before |-> FreedJustNow(got.index)]

\* the caller frees a block it holds with ChunkedAllocator::free
ChunkedFree ==
    /\ status = "live"
    /\ \E block \in held :
       \E got \in {ChunkedAllocator_free(chunks, block)} :
              /\ chunks' = got.self
              /\ owner' = owner
              /\ combined' = combined
              /\ smart' = smart
              /\ held' = held \ {block}
              /\ allocs' = allocs
              /\ frees' = frees + 1
              /\ issued' = issued
              /\ status' = Outcome(got.res)
              /\ ev' = [op |-> "free", reqs |-> NoReqs, res |-> got.res,
                        block |-> {block}, index |-> got.index, asked |-> <<>>,
                        free_before |-> -1, freed_before |-> {}]

\* the caller calls ChunkedAllocator::dispose
ChunkedDispose ==
    /\ status = "live"
    /\ \E got \in {ChunkedAllocator_dispose(chunks, owner)} :
           /\ chunks' = got.self
           /\ owner' = got.owner
           /\ status' = IF got.res = "Ok" THEN "disposed" ELSE Outcome(got.res)
           /\ ev' = [op |-> "dispose", reqs |-> NoReqs, res |-> got.res,
                     block |-> {}, index |-> -1, asked |-> <<>>,
                     free_before |-> -1, freed_before |-> {}]
    /\ UNCHANGED <<combined, smart, held, allocs, frees, issued>>

NextChunked == ChunkedAlloc \/ ChunkedFree \/ ChunkedDispose

SpecChunked == InitChunked /\ [][NextChunked]_vars

\* ------------------------- the Chunked pool over an owner that places blocks

\* What the owner may answer to the growth of the node a request goes to: a
\* block of a fresh memory object that starts at 0, at chunk_size or at
\* chunk_size * chunks_per_block, of exactly the size asked or longer by its
\* start; or an error. The start never exceeds the block's size, so line 45 of
\* chunked.rs subtracts without going below zero.
PlacedOutcomes(self, reqs) ==
    IF reqs.size = 0 \/ reqs.size > self.max_chunk_size
    THEN { [res |-> "Ok", start |-> 0, roomy |-> FALSE] }
    ELSE { [res |-> "OutOfMemory", start |-> 0, roomy |-> FALSE] }
         \cup { [res |-> "Ok", start |-> k * chunk_size(self, pick_node(self, reqs.size)),
                 roomy |-> r] :
                  k \in {0, 1, self.chunks_per_block}, r \in BOOLEAN }

\* the caller calls ChunkedAllocator::alloc
PlacedAlloc ==
    /\ status = "live"
    /\ allocs < MaxAllocs
    /\ Cardinality(held) < MaxHeld
    /\ \E reqs \in Requirements(chunks) :
       \E oc \in PlacedOutcomes(chunks, reqs) :
       \E got \in {ChunkedAllocator_alloc(chunks, owner, reqs, oc)} :
              /\ chunks' = got.self
              /\ owner' = got.owner
              /\ combined' = combined
              /\ smart' = smart
              /\ held' = held \cup got.block
              /\ allocs' = IF got.res = "Ok" THEN allocs + 1 ELSE allocs
              /\ frees' = frees
              /\ issued' = issued \cup got.block
              /\ status' = Outcome(got.res)
              /\ ev' = [op |-> "alloc", reqs |-> reqs, res |-> got.res,
                        block |-> got.block, index |-> got.index, asked |-> got.asked,
                        free_before |-> IF got.index >= 0 /\ got.index < Len(chunks.nodes)
                                        THEN Len(chunks.nodes[got.index + 1].free)
                                        ELSE IF got.index >= 0 THEN 0 ELSE -1,
                        freed_before |-> FreedJustNow(got.index)]

NextPlaced == PlacedAlloc \/ ChunkedFree \/ ChunkedDispose

SpecPlaced == InitChunked /\ [][NextPlaced]_vars

\* ------------------------------------------ the Combined dispatcher in use

\* CombinedAllocator::new(memory_type_id, arena_size, blocks_per_chunk,
\* min_block_size, max_chunk_size)
CombinedConfigs ==
    { [id |-> 0, arena_size |-> 512, chunks_per_block |-> 2,
       min_chunk_size |-> 256, max_chunk_size |-> 1024] }

\* The requests of the caller to a dispatcher: short-lived ones, general ones of
\* the smallest and of the largest size class, and one above max_chunk_size.
CombinedRequests(self) ==
    { [request |-> "ShortLived",
       reqs |-> [size |-> 200, alignment |-> 64, type_mask |-> {self.chunks.id}]] }
    \cup { [request |-> "General",
            reqs |-> [size |-> s, alignment |-> 64, type_mask |-> {self.chunks.id}]] :
              s \in {self.chunks.min_chunk_size - 56, self.chunks.max_chunk_size,
                     self.chunks.max_chunk_size + 904} }

InitCombined ==
    /\ \E c \in CombinedConfigs :
          combined = CombinedAllocator_new(c.id, c.arena_size, c.chunks_per_block,
                                           c.min_chunk_size, c.max_chunk_size)
    /\ chunks = ChunkedAllocator_new(2, 256, 1024, 0)
    /\ owner = NewOwner
    /\ smart = NoSmart
    /\ held = {}
    /\ allocs = 0
    /\ frees = 0
    /\ issued = {}
    /\ status = "live"
    /\ ev = [op |-> "new", request |-> "", reqs |-> NoReqs, res |-> "Ok", block |-> {},
             route |-> "", trail |-> <<>>]

\* the caller calls CombinedAllocator::alloc
CombinedAlloc ==
    /\ status = "live"
    /\ allocs < MaxAllocs
    /\ Cardinality(held) < MaxHeld
    /\ \E r \in CombinedRequests(combined) :
       \E oc \in RootOutcomes :
       \E got \in {CombinedAllocator_alloc(combined, r.request, r.reqs, oc)} :
              /\ combined' = got.self
              /\ held' = held \cup got.block
              /\ allocs' = IF got.res = "Ok" THEN allocs + 1 ELSE allocs
              /\ issued' = issued \cup got.block
              /\ status' = Outcome(got.res)
              /\ ev' = [op |-> "alloc", request |-> r.request, reqs |-> r.reqs,
                        res |-> got.res, block |-> got.block,
                        route |-> Route(combined, r.request, r.reqs), trail |-> <<>>]
    /\ UNCHANGED <<chunks, owner, smart, frees>>

\* the caller frees a block it holds with CombinedAllocator::free
CombinedFree ==
    /\ status = "live"
    /\ \E block \in held :
       \E got \in {CombinedAllocator_free(combined, block)} :
              /\ combined' = got.self
              /\ held' = held \ {block}
              /\ frees' = frees + 1
              /\ status' = Outcome(got.res)
              /\ ev' = [op |-> "free", request |-> "", reqs |-> NoReqs, res |-> got.res,
                        block |-> {block}, route |-> block.tag.kind, trail |-> <<>>]
    /\ UNCHANGED <<chunks, owner, smart, allocs, issued>>

\* the caller calls CombinedAllocator::is_used
CombinedIsUsed ==
    /\ status = "live"
    /\ status' = Outcome(CombinedAllocator_is_used(combined))
    /\ ev' = [op |-> "is_used", request |-> "", reqs |-> NoReqs,
              res |-> CombinedAllocator_is_used(combined), block |-> {},
              route |-> "", trail |-> <<>>]
    /\ UNCHANGED <<chunks, owner, smart, combined, held, allocs, frees, issued>>

\* the caller calls CombinedAllocator::dispose
CombinedDispose ==
    /\ status = "live"
    /\ \E got \in {CombinedAllocator_dispose(combined)} :
           /\ combined' = got.self
           /\ status' = IF got.res = "Ok" THEN "disposed" ELSE Outcome(got.res)
           /\ ev' = [op |-> "dispose", request |-> "", reqs |-> NoReqs, res |-> got.res,
                     block |-> {}, route |-> "", trail |-> got.trail]
    /\ UNCHANGED <<chunks, owner, smart, held, allocs, frees, issued>>

NextCombined == CombinedAlloc \/ CombinedFree \/ CombinedIsUsed \/ CombinedDispose

SpecCombined == InitCombined /\ [][NextCombined]_vars

\* ---------------------------------------------------- the Smart selector in use

\* SmartAllocator::new(memory_properties, 512, 2, 256, 1024): two memory types on
\* a heap of 10 bytes and a heap of 10 MiB; three memory types, the last two
\* sharing the second heap; one memory type
SmartConfigs ==
    { [memory_types |-> <<[properties |-> {"DEVICE_LOCAL", "CPU_VISIBLE"}, heap_index |-> 0]>>,
       memory_heaps |-> <<2048>>],
      [memory_types |-> <<[properties |-> {"DEVICE_LOCAL"}, heap_index |-> 0],
                          [properties |-> {"DEVICE_LOCAL", "CPU_VISIBLE"}, heap_index |-> 1]>>,
       memory_heaps |-> <<10, 10485760>>],
      [memory_types |-> <<[properties |-> {"DEVICE_LOCAL"}, heap_index |-> 0],
                          [properties |-> {"DEVICE_LOCAL", "CPU_VISIBLE"}, heap_index |-> 1],
                          [properties |-> {"CPU_VISIBLE"}, heap_index |-> 1]>>,
       memory_heaps |-> <<480, 2048>>] }

\* The requests of the caller to a selector: general ones of the two smallest
\* size classes, one of 4 KiB, a short-lived one, ones asking for a property the
\* first memory type lacks, one whose mask names no memory type, one whose mask
\* names only a memory type without the property.
SmartRequests ==
    { [request |-> "General", prop |-> {},
       reqs |-> [size |-> s, alignment |-> 64, type_mask |-> {0, 1}]] : s \in {200, 300, 4096} }
    \cup { [request |-> "ShortLived", prop |-> {},
            reqs |-> [size |-> 200, alignment |-> 64, type_mask |-> {0, 1}]] }
    \cup { [request |-> "General", prop |-> {"CPU_VISIBLE"},
            reqs |-> [size |-> 200, alignment |-> 64, type_mask |-> m]] :
              m \in {{0, 1, 2}, {2}, {0}} }
    \cup { [request |-> "General", prop |-> {},
            reqs |-> [size |-> 200, alignment |-> 64, type_mask |-> {3}]] }

\* the answer of Root to the growth of a node of the pool of dispatcher `self`,
\* "none" when the request does not make a node grow
GrowthAnswer(self, request, reqs, oc) ==
    IF Route(self, request, reqs) # "Chunked" THEN "none"
    ELSE Bind(ChunkedAllocator_alloc(self.chunks, self.root, reqs, oc), LAMBDA got :
            IF got.asked = <<>> THEN "none"
            ELSE Owner_alloc(self.root, got.asked[1], oc).res)

\* whether a subtraction below zero wraps: either, once one can happen
Wrapping(self) ==
    IF \E k \in 1 .. Len(self.heaps) : self.heaps[k].used > self.heaps[k].size
    THEN BOOLEAN
    ELSE {FALSE}

\* the answer of dispatcher `self` to a request
DispatcherAnswer(self, request, reqs, oc) == CombinedAllocator_alloc(self, request, reqs, oc).res

InitSmart ==
    /\ \E c \in SmartConfigs : smart = SmartAllocator_new(c, 512, 2, 256, 1024)
    /\ combined = CombinedAllocator_new(0, 512, 2, 256, 1024)
    /\ chunks = ChunkedAllocator_new(2, 256, 1024, 0)
    /\ owner = NewOwner
    /\ held = {}
    /\ allocs = 0
    /\ frees = 0
    /\ issued = {}
    /\ status = "live"
    /\ ev = [op |-> "new", request |-> "", prop |-> {}, reqs |-> NoReqs, res |-> "Ok",
             block |-> {}, index |-> -1, owner_res |-> "none", dispatcher_res |-> "none",
             done |-> 0]

\* the caller calls SmartAllocator::alloc
SmartAlloc ==
    /\ status = "live"
    /\ allocs < MaxSmartAllocs
    /\ Cardinality(held) < MaxSmartHeld
    /\ \E r \in SmartRequests :
       \E oc \in RootOutcomes :
       \E wraps \in Wrapping(smart) :
       \E got \in {SmartAllocator_alloc(smart, r.request, r.prop, r.reqs, wraps, oc)} :
              /\ smart' = got.self
              /\ held' = held \cup got.block
              /\ allocs' = IF got.res = "Ok" THEN allocs + 1 ELSE allocs
              /\ issued' = issued \cup got.block
              /\ status' = Outcome(got.res)
              /\ ev' = [op |-> "alloc", request |-> r.request, prop |-> r.prop,
                        reqs |-> r.reqs, res |-> got.res, block |-> got.block,
                        index |-> got.index,
                        owner_res |-> IF got.index < 0 THEN "none"
                                      ELSE GrowthAnswer(smart.allocators[got.index + 1].allocator,
                                                        r.request, r.reqs, oc),
                        dispatcher_res |-> IF got.index < 0 THEN "none"
                                           ELSE DispatcherAnswer(
                                                    smart.allocators[got.index + 1].allocator,
                                                    r.request, r.reqs, oc),
                        done |-> 0]
    /\ UNCHANGED <<chunks, owner, combined, frees>>

\* the caller frees a block it holds with SmartAllocator::free
SmartFree ==
    /\ status = "live"
    /\ \E block \in held :
       \E wraps \in Wrapping(smart) :
       \E got \in {SmartAllocator_free(smart, block, wraps)} :
              /\ smart' = got.self
              /\ held' = held \ {block}
              /\ frees' = frees + 1
              /\ status' = Outcome(got.res)
              /\ ev' = [op |-> "free", request |-> "", prop |-> {}, reqs |-> NoReqs,
                        res |-> got.res, block |-> {block}, index |-> block.tag.index,
                        owner_res |-> "none", dispatcher_res |-> "none", done |-> 0]
    /\ UNCHANGED <<chunks, owner, combined, allocs, issued>>

\* the caller calls SmartAllocator::is_unused
SmartIsUnused ==
    /\ status = "live"
    /\ status' = Outcome(SmartAllocator_is_unused(smart))
    /\ ev' = [op |-> "is_unused", request |-> "", prop |-> {}, reqs |-> NoReqs,
              res |-> SmartAllocator_is_unused(smart), block |-> {}, index |-> -1,
              owner_res |-> "none", dispatcher_res |-> "none", done |-> 0]
    /\ UNCHANGED <<chunks, owner, combined, smart, held, allocs, frees, issued>>

\* the caller calls SmartAllocator::dispose
SmartDispose ==
    /\ status = "live"
    /\ \E got \in {SmartAllocator_dispose(smart)} :
           /\ smart' = got.self
           /\ status' = IF got.res = "Ok" THEN "disposed" ELSE Outcome(got.res)
           /\ ev' = [op |-> "dispose", request |-> "", prop |-> {}, reqs |-> NoReqs,
                     res |-> got.res, block |-> {}, index |-> -1,
                     owner_res |-> "none", dispatcher_res |-> "none", done |-> got.done]
    /\ UNCHANGED <<chunks, owner, combined, held, allocs, frees, issued>>

NextSmart == SmartAlloc \/ SmartFree \/ SmartIsUnused \/ SmartDispose

SpecSmart == InitSmart /\ [][NextSmart]_vars

\* ------------------------------------------------------- pick_node applied

\* pools with a power of two as min_chunk_size and MaxSizeClass classes above it
PickPools ==
    { [min_chunk_size |-> m, max_chunk_size |-> m * (2 ^ MaxSizeClass)] : m \in {1, 4, 256} }

InitPickNode ==
    /\ \E c \in PickPools :
          /\ chunks = ChunkedAllocator_new(2, c.min_chunk_size, c.max_chunk_size, 0)
          /\ \E size \in 1 .. c.max_chunk_size :
                ev = [op |-> "input", size |-> size, index |-> -1]
    /\ owner = NewOwner
    /\ combined = CombinedAllocator_new(0, 512, 2, 256, 1024)
    /\ smart = NoSmart
    /\ held = {}
    /\ allocs = 0
    /\ frees = 0
    /\ issued = {}
    /\ status = "live"

\* ChunkedAllocator::pick_node(size)
PickNode ==
    /\ ev.op = "input"
    /\ ev' = [ev EXCEPT !.op = "pick_node", !.index = pick_node(chunks, ev.size)]
    /\ UNCHANGED <<chunks, owner, combined, smart, held, allocs, frees, issued, status>>

NextPickNode == PickNode

SpecPickNode == InitPickNode /\ [][NextPickNode]_vars

\* ------------------------------------------- the alignment helpers applied

\* the alignments the helpers are applied to: none, powers of two, others
Alignments == {0, 1, 2, 3, 4, 8, 12, 16, 32, 64}

InitAlignment ==
    /\ \E alignment \in Alignments :
       \E offset \in 0 .. MaxOffset :
          ev = [op |-> "input", alignment |-> alignment, offset |-> offset, result |-> -1]
    /\ chunks = ChunkedAllocator_new(2, 256, 1024, 0)
    /\ owner = NewOwner
    /\ combined = CombinedAllocator_new(0, 512, 2, 256, 1024)
    /\ smart = NoSmart
    /\ held = {}
    /\ allocs = 0
    /\ frees = 0
    /\ issued = {}
    /\ status = "live"

\* shift_for_alignment(alignment, offset)
ShiftForAlignment ==
    /\ ev.op = "input"
    /\ ev' = [ev EXCEPT !.op = "shift_for_alignment",
                        !.result = shift_for_alignment(ev.alignment, ev.offset)]
    /\ UNCHANGED <<chunks, owner, combined, smart, held, allocs, frees, issued, status>>

\* alignment_shift(alignment, offset)
AlignmentShift ==
    /\ ev.op = "input"
    /\ ev' = [ev EXCEPT !.op = "alignment_shift",
                        !.result = alignment_shift(ev.alignment, ev.offset)]
    /\ UNCHANGED <<chunks, owner, combined, smart, held, allocs, frees, issued, status>>

NextAlignment == ShiftForAlignment \/ AlignmentShift

SpecAlignment == InitAlignment /\ [][NextAlignment]_vars

\* ------------------------------------------------ claims: the Chunked pool

Range(block) == <<block.start, block.end>>

\* the size class of a size: the least i with min_chunk_size * 2^i >= size
ClassOf(self, size) ==
    CHOOSE i \in 0 .. 8 :
        /\ self.min_chunk_size * (2 ^ i) >= size
        /\ \A j \in 0 .. i - 1 : self.min_chunk_size * (2 ^ j) < size

ClassChunkSize(self, size) == self.min_chunk_size * (2 ^ ClassOf(self, size))

\* the least multiple of `alignment` that is >= offset
AlignedUp(alignment, offset) ==
    CHOOSE m \in offset .. offset + alignment - 1 : m % alignment = 0

\* the blocks of node i (0-based) the caller holds
HeldOf(i) == { b \in held : BlockSize(b) = chunks.nodes[i + 1].chunk_size }

NodeIndices == 0 .. Len(chunks.nodes) - 1

\* C1: in every node outstanding chunks + free-list length = chunks_per_block *
\* superblock count; the outstanding blocks number successful allocs minus frees;
\* is_unused() (of a node, of the pool) holds exactly when nothing is outstanding.
C1_Accounting ==
    /\ Cardinality(held) = allocs - frees
    /\ \A i \in NodeIndices :
          LET node == chunks.nodes[i + 1]
          IN  /\ Cardinality(HeldOf(i)) + Len(node.free)
                    = node.chunks_per_block * Len(node.blocks)
              /\ ChunkedNode_count(node) = node.chunks_per_block * Len(node.blocks)
              /\ ChunkedNode_is_unused(node) <=> (HeldOf(i) = {})
    /\ status # "disposed" => (ChunkedAllocator_is_unused(chunks) <=> (held = {}))

C1_Witness ==
    /\ allocs >= 3 /\ frees >= 1 /\ Cardinality(held) >= 2
    /\ \E i \in NodeIndices : Len(chunks.nodes[i + 1].blocks) >= 2
    /\ \E i \in NodeIndices : chunks.nodes[i + 1].blocks = <<>>

\* C2: a block returned by ChunkedAllocator::alloc has exactly the chunk size of
\* the size class of the request, which is >= the requested size, and starts at a
\* multiple of that chunk size.
C2_BlockShape ==
    (ev.op = "alloc" /\ ev.res = "Ok") =>
        \A b \in ev.block :
            /\ BlockSize(b) = ClassChunkSize(chunks, ev.reqs.size)
            /\ BlockSize(b) >= ev.reqs.size
            /\ b.start % ClassChunkSize(chunks, ev.reqs.size) = 0

C2_Witness ==
    /\ ev.op = "alloc" /\ ev.res = "Ok" /\ ev.reqs.size = 300
    /\ \E b \in ev.block :
          /\ b.tag = 1 /\ b.start > 512
          /\ chunks.nodes[2].blocks[2].block.start = 768

\* C3 as stated: alloc fails with OutOfMemory, the pool unchanged, when the size is
\* above max_chunk_size; every request with 0 < size <= max_chunk_size, an
\* alignment within its class's chunk size and the type bit set goes to node
\* pick_node(size) and ends with a block or the owner's error, never a panic.
C3_AsStated ==
    ev.op = "alloc" =>
        /\ ev.reqs.size > chunks.max_chunk_size =>
              ev.res = "OutOfMemory" /\ ev.asked = <<>> /\ ev.index = -1
        /\ ( /\ 0 < ev.reqs.size
             /\ ev.reqs.size <= chunks.max_chunk_size
             /\ ev.reqs.alignment <= ClassChunkSize(chunks, ev.reqs.size)
             /\ chunks.id \in ev.reqs.type_mask ) =>
              /\ ev.index = ClassOf(chunks, ev.reqs.size)
              /\ ev.res \in {"Ok", "OutOfMemory", "TooManyObjects"}
              /\ ev.res = "Ok" <=> ev.block # {}
              /\ ev.res # "Ok" => ev.asked # <<>>

\* C4: when a chunk is freed and the next operation on its node is an alloc, that
\* alloc returns the freed chunk: same memory, same range, same superblock tag.
C4_LifoReuse ==
    (ev.op = "alloc" /\ ev.res = "Ok" /\ ev.freed_before # {}) =>
        ev.block = ev.freed_before

C4_Witness ==
    /\ ev.op = "alloc" /\ ev.res = "Ok" /\ ev.freed_before # {}
    /\ ev.free_before >= 3
    /\ \E b \in ev.block : b.tag = 1

\* the chunk indices of superblock k (0-based) of a node that were ever handed out
IssuedChunks(node, k) ==
    { (b.start - node.blocks[k + 1].offset) \div node.chunk_size :
        b \in { x \in issued : /\ x.memory = node.blocks[k + 1].block.memory
                               /\ BlockSize(x) = node.chunk_size } }

\* the request the pool was built for the scenario of the specification
ScenarioPool ==
    /\ chunks.chunks_per_block = 4
    /\ chunks.min_chunk_size = 256
    /\ chunks.max_chunk_size = 4096

\* C5: a node alloc (past its precondition checks) calls the owner exactly when the
\* node's free list is empty, once, for chunk_size * chunks_per_block bytes aligned
\* to chunk_size; it enqueues chunks_per_block entries, and the chunks of a
\* superblock are handed out in ascending order from the aligned base. With
\* min 256, 4 chunks, max 4096: alloc(200, 64) returns [0, 256), the next one
\* [256, 512), and after freeing [0, 256) the next one [0, 256).
C5_Growth ==
    /\ ( /\ ev.op = "alloc" /\ ev.index >= 0
         /\ chunks.id \in ev.reqs.type_mask
         /\ ev.reqs.alignment <= chunks.nodes[ev.index + 1].chunk_size ) =>
          LET node == chunks.nodes[ev.index + 1]
          IN  /\ (ev.asked # <<>>) <=> (ev.free_before = 0)
              /\ ev.asked # <<>> =>
                    ev.asked = << [type_mask |-> {node.id},
                                   size |-> node.chunk_size * node.chunks_per_block,
                                   alignment |-> node.chunk_size] >>
              /\ (ev.asked # <<>> /\ ev.res = "Ok") =>
                    LET k == Len(node.blocks) - 1
                        super == node.blocks[k + 1]
                    IN  /\ node.free = [c \in 1 .. node.chunks_per_block - 1 |-> <<k, c>>]
                        /\ super.offset = AlignedUp(node.chunk_size, super.block.start)
                        /\ ev.block = {[memory |-> super.block.memory,
                                        start |-> super.offset,
                                        end |-> super.offset + node.chunk_size,
                                        tag |-> k]}
    /\ \A i \in NodeIndices : \A k \in 0 .. Len(chunks.nodes[i + 1].blocks) - 1 :
          \E n \in 0 .. chunks.nodes[i + 1].chunks_per_block :
              IssuedChunks(chunks.nodes[i + 1], k) = 0 .. n - 1
    /\ ( /\ ScenarioPool /\ ev.op = "alloc" /\ ev.res = "Ok"
         /\ ev.reqs = [size |-> 200, alignment |-> 64, type_mask |-> {0}]
         /\ chunks.nodes[1].blocks[1].block.start = 0 ) =>
          /\ (allocs = 1 /\ frees = 0) =>
                /\ ev.asked # <<>> /\ ev.asked[1].size = 1024
                /\ Len(chunks.nodes[1].free) = 3
                /\ {Range(b) : b \in ev.block} = {<<0, 256>>}
          /\ (allocs = 2 /\ frees = 0 /\ held = HeldOf(0)) =>
                /\ ev.asked = <<>>
                /\ {Range(b) : b \in ev.block} = {<<256, 512>>}
          /\ (allocs = 3 /\ frees = 1 /\ issued = HeldOf(0) \cup ev.freed_before
              /\ {Range(b) : b \in ev.freed_before} = {<<0, 256>>}) =>
                {Range(b) : b \in ev.block} = {<<0, 256>>}

C5_Witness ==
    /\ ScenarioPool /\ ev.op = "alloc" /\ ev.res = "Ok"
    /\ ev.reqs = [size |-> 200, alignment |-> 64, type_mask |-> {0}]
    /\ chunks.nodes[1].blocks[1].block.start = 0
    /\ allocs = 3 /\ frees = 1 /\ issued = HeldOf(0) \cup ev.freed_before
    /\ {Range(b) : b \in ev.freed_before} = {<<0, 256>>}
    /\ {Range(b) : b \in held} = {<<0, 256>>, <<256, 512>>}

\* C6: ChunkedAllocator::dispose with a block outstanding fails, leaves the pool as
\* it was and frees nothing to the owner; with nothing outstanding it succeeds and
\* frees every superblock the pool obtained to the owner, each exactly once.
C6_DisposeAllOrNothing ==
    [][ ev'.op = "dispose" =>
          IF held # {}
          THEN ev'.res = "Err" /\ chunks' = chunks /\ owner' = owner
          ELSE /\ ev'.res = "Ok"
               /\ chunks'.nodes = <<>>
               /\ owner'.live = {}
               /\ owner'.freed = owner.freed \cup owner.live
               /\ Cardinality(owner'.freed) = owner'.next
               /\ ~owner'.stray ]_vars

C6_Witness ==
    /\ ev.op = "dispose" /\ status = "disposed"
    /\ frees >= 2 /\ Cardinality(owner.freed) >= 2

\* ------------------------------------------ claims: the Combined dispatcher

\* the memory objects of the superblocks of a Chunked pool
SuperblockMemories(self) ==
    UNION { { self.nodes[i].blocks[k].block.memory : k \in 1 .. Len(self.nodes[i].blocks) } :
              i \in 1 .. Len(self.nodes) }

ArenaMemories(self) == { self.nodes[i].block.memory : i \in 1 .. Len(self.nodes) }

\* C7: CombinedAllocator::alloc takes a ShortLived request to the Arena, a General
\* request of size <= max_chunk_size to the Chunked pool and a larger General
\* request to Root, and only there; the block returned carries the tag of the
\* sub-allocator that served it; CombinedAllocator::free hands a block back to
\* the sub-allocator its tag names, and to no other.
C7_Routing ==
    [][ /\ ev'.op = "alloc" =>
            /\ ev'.request = "ShortLived" =>
                  /\ ev'.route = "Arena"
                  /\ combined'.chunks = combined.chunks
                  /\ \A b \in ev'.block :
                        /\ b.tag.kind = "Arena"
                        /\ b.memory \in ArenaMemories(combined'.arenas)
                        /\ combined'.arenas.nodes[b.tag.tag + 1].live
                              = IF b.tag.tag + 1 <= Len(combined.arenas.nodes)
                                THEN combined.arenas.nodes[b.tag.tag + 1].live + 1
                                ELSE 1
            /\ (ev'.request = "General"
                /\ ev'.reqs.size <= combined.chunks.max_chunk_size) =>
                  /\ ev'.route = "Chunked"
                  /\ combined'.arenas = combined.arenas
                  /\ \A b \in ev'.block :
                        /\ b.tag.kind = "Chunked"
                        /\ b.memory \in SuperblockMemories(combined'.chunks)
                        /\ Unwrapped(b) \notin combined'.root.live
            /\ (ev'.request = "General"
                /\ ev'.reqs.size > combined.chunks.max_chunk_size) =>
                  /\ ev'.route = "Root"
                  /\ combined'.arenas = combined.arenas
                  /\ combined'.chunks = combined.chunks
                  /\ \A b \in ev'.block :
                        /\ b.tag.kind = "Root"
                        /\ combined'.root.live = combined.root.live \cup {Unwrapped(b)}
                        /\ Unwrapped(b) \notin combined.root.live
            /\ ev'.res = "Ok" <=> ev'.block # {}
        /\ ev'.op = "free" =>
            \A b \in ev'.block :
                /\ b.tag.kind = "Arena" =>
                      /\ combined'.chunks = combined.chunks
                      /\ combined'.root = combined.root
                      /\ combined'.arenas.nodes[b.tag.tag + 1].live
                            = combined.arenas.nodes[b.tag.tag + 1].live - 1
                /\ b.tag.kind = "Chunked" =>
                      /\ combined'.arenas = combined.arenas
                      /\ combined'.root = combined.root
                      /\ \E i \in 1 .. Len(combined.chunks.nodes) :
                            /\ combined.chunks.nodes[i].chunk_size = BlockSize(b)
                            /\ Len(combined'.chunks.nodes[i].free)
                                  = Len(combined.chunks.nodes[i].free) + 1
                            /\ Head(combined'.chunks.nodes[i].free)[1] = b.tag.tag
                /\ b.tag.kind = "Root" =>
                      /\ combined'.arenas = combined.arenas
                      /\ combined'.chunks = combined.chunks
                      /\ Unwrapped(b) \in combined.root.live
                      /\ combined'.root.live = combined.root.live \ {Unwrapped(b)} ]_vars

C7_Witness ==
    /\ ev.op = "free" /\ ev.res = "Ok" /\ ev.route = "Chunked"
    /\ \E b \in held : b.tag.kind = "Arena"
    /\ \E b \in issued : b.tag.kind = "Root"

\* C8 as stated: the allocation counter is the number of outstanding blocks, and
\* is_used() returns true exactly when that counter is above zero.
C8_AsStated ==
    /\ combined.allocations = Cardinality(held)
    /\ ev.op = "is_used" => (ev.res = "true" <=> combined.allocations > 0)

\* C9 as stated: dispose returns Err(self) exactly when a block is outstanding, and
\* succeeds, without a fault, when none is.
C9_AsStated ==
    ev.op = "dispose" => IF held # {} THEN ev.res = "Err" ELSE ev.res = "Ok"

C20_AsStated ==
    [][ /\ \A i \in 0 .. Len(chunks'.nodes) - 1 :
              /\ chunks'.nodes[i + 1].chunk_size = chunks.min_chunk_size * (2 ^ i)
              /\ chunks'.nodes[i + 1].chunk_size <= chunks.max_chunk_size
        /\ ev'.op # "dispose" => Len(chunks'.nodes) >= Len(chunks.nodes)
        /\ (ev'.op = "alloc" /\ ev'.reqs.size > 0
            /\ ev'.reqs.size <= chunks.max_chunk_size) =>
              Len(chunks'.nodes)
                 = IF Len(chunks.nodes) > ClassOf(chunks, ev'.reqs.size) + 1
                   THEN Len(chunks.nodes)
                   ELSE ClassOf(chunks, ev'.reqs.size) + 1 ]_vars

\* the free-list entry of a block of a node: (superblock index, chunk index)
EntryOf(node, block) ==
    <<block.tag, (block.start - node.blocks[block.tag + 1].offset) \div node.chunk_size>>

\* C21: no chunk is handed out twice. Two outstanding blocks on one memory
\* object have disjoint byte ranges; every outstanding block lies inside the
\* superblock its tag names, in the node of its size; no free list holds an
\* entry twice, or the entry of an outstanding chunk.
C21_NoChunkTwice ==
    /\ \A a \in held : \A b \in held :
          (a # b /\ a.memory = b.memory) => (a.end <= b.start \/ b.end <= a.start)
    /\ \A b \in held :
          /\ ClassOf(chunks, BlockSize(b)) < Len(chunks.nodes)
          /\ \E node \in {chunks.nodes[ClassOf(chunks, BlockSize(b)) + 1]} :
                /\ b.tag < Len(node.blocks)
                /\ node.blocks[b.tag + 1].block.memory = b.memory
                /\ node.blocks[b.tag + 1].block.start <= b.start
                /\ b.end <= node.blocks[b.tag + 1].block.end
                /\ \A p \in 1 .. Len(node.free) : node.free[p] # EntryOf(node, b)
    /\ \A i \in 1 .. Len(chunks.nodes) :
          \A p \in 1 .. Len(chunks.nodes[i].free) :
             \A q \in 1 .. Len(chunks.nodes[i].free) :
                p # q => chunks.nodes[i].free[p] # chunks.nodes[i].free[q]

\* a chunk was freed and handed out again; two blocks of one superblock are
\* outstanding, off a memory object that does not start at 0, and a free list
\* has entries
C21_Witness ==
    /\ status = "live" /\ frees >= 1 /\ ev.op = "alloc" /\ ev.res = "Ok"
    /\ ev.block # {} /\ ev.freed_before = ev.block
    /\ \E a \in held : \E b \in held :
          a # b /\ a.memory = b.memory /\ a.tag = b.tag /\ a.start >= 768
    /\ \E i \in 1 .. Len(chunks.nodes) : chunks.nodes[i].free # <<>>

\* C23 as stated: whenever the owner answers a node's growth with a block of at
\* least chunk_size * chunks_per_block bytes that starts at a multiple of
\* chunk_size, zero or not, the room assertion holds and the growth succeeds:
\* the alloc returns a chunk of the new superblock.
C23_AsStated ==
    [][ (ev'.op = "alloc" /\ ev'.asked # <<>>) =>
            \A b \in owner'.live \ owner.live :
                (/\ BlockSize(b) >= ev'.asked[1].size
                 /\ b.start % ev'.asked[1].alignment = 0) =>
                    /\ ev'.res = "Ok"
                    /\ \A c \in ev'.block : c.memory = b.memory ]_vars

\* ---------------------------------------------- claims: the Smart selector

\* the memory types of a selector, by index
TypeIndices(self) == 0 .. Len(self.allocators) - 1

\* the bytes heap `k` has left, as a number: below zero when overfull
Headroom(self, index) == HeapOf(self, index).size - HeapOf(self, index).used

\* memory type `index` satisfies mask, properties and capacity of a request
Selectable(self, index, prop, reqs) ==
    /\ index \in reqs.type_mask
    /\ prop \subseteq self.allocators[index + 1].memory_type.properties
    /\ Headroom(self, index) >= reqs.size + reqs.alignment

\* the lowest selectable memory type, -1 when there is none
LowestSelectable(self, prop, reqs) ==
    IF \E i \in TypeIndices(self) : Selectable(self, i, prop, reqs)
    THEN CHOOSE i \in TypeIndices(self) :
            /\ Selectable(self, i, prop, reqs)
            /\ \A j \in 0 .. i - 1 : ~Selectable(self, j, prop, reqs)
    ELSE -1

\* C11 as stated: every alloc selects the lowest memory type whose bit is in the
\* mask, whose properties contain the requested ones and whose heap has
\* size + alignment bytes left, skipping the compatible ones below it that lack
\* the room; the block it returns is tagged with that index.
C11_AsStated ==
    [][ ev'.op = "alloc" =>
            /\ ev'.index = LowestSelectable(smart, ev'.prop, ev'.reqs)
            /\ \A b \in ev'.block : b.tag.index = ev'.index ]_vars

\* the memory types that satisfy mask and properties of a request
Compatible(self, prop, reqs) ==
    { i \in TypeIndices(self) :
        /\ i \in reqs.type_mask
        /\ prop \subseteq self.allocators[i + 1].memory_type.properties }

\* C12: an alloc that finds no memory type to select fails with
\* NoCompatibleMemoryType exactly when no memory type satisfies mask and
\* properties, and with OutOfMemory exactly when some do and the heap of none of
\* them has size + alignment bytes left; a request no memory type is compatible
\* with always ends in NoCompatibleMemoryType.
C12_SelectionErrors ==
    [][ ev'.op = "alloc" =>
          /\ (ev'.index = -1 /\ ev'.res # "Panic") =>
                /\ ev'.res \in {"NoCompatibleMemoryType", "OutOfMemory"}
                /\ ev'.res = "NoCompatibleMemoryType"
                      <=> Compatible(smart, ev'.prop, ev'.reqs) = {}
                /\ ev'.res = "OutOfMemory"
                      <=> /\ Compatible(smart, ev'.prop, ev'.reqs) # {}
                          /\ \A i \in Compatible(smart, ev'.prop, ev'.reqs) :
                                Headroom(smart, i) < ev'.reqs.size + ev'.reqs.alignment
                /\ smart' = smart
          /\ Compatible(smart, ev'.prop, ev'.reqs) = {} =>
                ev'.res = "NoCompatibleMemoryType" ]_vars

\* an alloc failed with OutOfMemory in the selector: two memory types match, one
\* on a heap that a block was taken from
C12_Witness ==
    /\ ev.op = "alloc" /\ ev.index = -1 /\ ev.res = "OutOfMemory"
    /\ Cardinality(Compatible(smart, ev.prop, ev.reqs)) >= 2
    /\ \E i \in Compatible(smart, ev.prop, ev.reqs) : HeapOf(smart, i).used > 0

\* C13 as stated: the used bytes of every heap never exceed its size, so that
\* size - used is never below zero; a successful alloc adds no more than the
\* size + alignment bytes the capacity check reserved.
C13_AsStated ==
    /\ \A k \in 1 .. Len(smart.heaps) : smart.heaps[k].used <= smart.heaps[k].size
    /\ (ev.op = "alloc" /\ ev.res = "Ok") =>
          \A b \in ev.block : BlockSize(b) <= ev.reqs.size + ev.reqs.alignment

RECURSIVE SumOfSizes(_)
\* the sizes of a set of blocks, added up
SumOfSizes(blocks) ==
    IF blocks = {} THEN 0
    ELSE Bind(CHOOSE b \in blocks : TRUE, LAMBDA b :
            BlockSize(b) + SumOfSizes(blocks \ {b}))

\* the outstanding blocks whose memory type is on heap `heap_index`
HeldOnHeap(heap_index) ==
    { b \in held : smart.allocators[b.tag.index + 1].memory_type.heap_index = heap_index }

\* C14: the used bytes of every heap are the sizes of the outstanding blocks of
\* the memory types on that heap, added up, memory types on one heap sharing
\* the counter; so used is 0 again when every block is freed, and no free takes
\* the counter below zero.
C14_UsedIsOutstanding ==
    /\ status = "live" =>
          \A k \in 1 .. Len(smart.heaps) :
              smart.heaps[k].used = SumOfSizes(HeldOnHeap(k - 1))
    /\ ev.op = "free" => ev.res = "Ok"

\* a block of memory type 1 was freed while a block of memory type 2, on the
\* same heap, is outstanding
C14_Witness ==
    /\ status = "live" /\ ev.op = "free" /\ ev.res = "Ok"
    /\ \E b \in ev.block : b.tag.index = 1
    /\ \E b \in held : b.tag.index = 2
    /\ smart.allocators[2].memory_type.heap_index = smart.allocators[3].memory_type.heap_index
    /\ smart.heaps[2].used > 0

\* C15 as stated: is_unused() is true exactly when no block of the selector is
\* outstanding; dispose returns Err(self) while a block is outstanding and, when
\* none is, disposes every dispatcher without a fault and returns Ok.
C15_AsStated ==
    /\ ev.op = "is_unused" => (ev.res = "true" <=> held = {})
    /\ ev.op = "dispose" =>
          IF held # {} THEN ev.res = "Err"
          ELSE ev.res = "Ok" /\ ev.done > 0 /\ smart.allocators = <<>>

\* the nodes of the pool of the dispatcher of memory type `index`
PoolNodes(self, index) == self.allocators[index + 1].allocator.chunks.nodes

\* C16: when Root fails the growth of a node with OutOfMemory or TooManyObjects,
\* that error is what the node's alloc, the pool's, the dispatcher's and the
\* selector's alloc return; free list and superblock list of every node are as
\* before the call (empty for a node the call appended), and Root, the allocation
\* counter and the heaps are as before.
C16_OwnerErrorPropagates ==
    [][ (ev'.op = "alloc" /\ ev'.owner_res \in {"OutOfMemory", "TooManyObjects"}) =>
            /\ ev'.res = ev'.owner_res
            /\ ev'.block = {}
            /\ \A k \in 1 .. Len(PoolNodes(smart', ev'.index)) :
                  IF k <= Len(PoolNodes(smart, ev'.index))
                  THEN /\ PoolNodes(smart', ev'.index)[k].free = PoolNodes(smart, ev'.index)[k].free
                       /\ PoolNodes(smart', ev'.index)[k].blocks
                             = PoolNodes(smart, ev'.index)[k].blocks
                  ELSE /\ PoolNodes(smart', ev'.index)[k].free = <<>>
                       /\ PoolNodes(smart', ev'.index)[k].blocks = <<>>
            /\ Len(PoolNodes(smart', ev'.index)) >= Len(PoolNodes(smart, ev'.index))
            /\ smart'.allocators[ev'.index + 1].allocator.root
                  = smart.allocators[ev'.index + 1].allocator.root
            /\ smart'.allocators[ev'.index + 1].allocator.allocations
                  = smart.allocators[ev'.index + 1].allocator.allocations
            /\ smart'.heaps = smart.heaps
            /\ held' = held ]_vars

\* Root refused the growth of a node with TooManyObjects, in a pool where
\* another node has a superblock and a free chunk
C16_Witness ==
    /\ ev.op = "alloc" /\ ev.index >= 0
    /\ ev.owner_res = "TooManyObjects" /\ ev.res = "TooManyObjects"
    /\ \E k \in 1 .. Len(PoolNodes(smart, ev.index)) :
          /\ PoolNodes(smart, ev.index)[k].blocks # <<>>
          /\ PoolNodes(smart, ev.index)[k].free # <<>>
    /\ held # {}

\* C18 as stated: the memory type an alloc selects is, of the memory types that
\* satisfy mask, properties and capacity, one whose heap has the fewest bytes
\* used.
C18_AsStated ==
    [][ (ev'.op = "alloc" /\ ev'.index >= 0) =>
            \A j \in TypeIndices(smart) :
                Selectable(smart, j, ev'.prop, ev'.reqs) =>
                    HeapOf(smart, ev'.index).used <= HeapOf(smart, j).used ]_vars

\* C22: when the dispatcher of the selected memory type fails, the alloc returns
\* that error and no block; no other dispatcher is touched, so no later
\* compatible memory type is tried; the used bytes of every heap are as before.
C22_FailedDispatcher ==
    [][ (ev'.op = "alloc" /\ ev'.index >= 0
         /\ ev'.dispatcher_res \notin {"Ok", "Panic"}) =>
            /\ ev'.res = ev'.dispatcher_res
            /\ ev'.block = {}
            /\ smart'.heaps = smart.heaps
            /\ \A j \in TypeIndices(smart) \ {ev'.index} :
                  smart'.allocators[j + 1] = smart.allocators[j + 1]
            /\ held' = held /\ issued' = issued ]_vars

\* the dispatcher of the selected memory type failed with OutOfMemory while a
\* later memory type satisfies the request, and a heap has bytes in use
C22_Witness ==
    /\ ev.op = "alloc" /\ ev.index >= 0
    /\ ev.dispatcher_res = "OutOfMemory" /\ ev.res = "OutOfMemory"
    /\ \E j \in TypeIndices(smart) :
          j > ev.index /\ Selectable(smart, j, ev.prop, ev.reqs)
    /\ HeapOf(smart, ev.index).used > 0

\* ------------------------------------------------ claims: the pure functions

\* C17: for a power of two as min_chunk_size and 0 < size <= max_chunk_size,
\* pick_node(size) is the least index i with min_chunk_size * 2^i >= size; it is
\* monotonic in size, and it maps the chunk size of every class back to the
\* class, which is how free finds the node of a block from its size alone.
C17_PickNode ==
    ev.op = "pick_node" =>
        /\ ev.index >= 0
        /\ chunks.min_chunk_size * (2 ^ ev.index) >= ev.size
        /\ \A j \in 0 .. ev.index - 1 : chunks.min_chunk_size * (2 ^ j) < ev.size
        /\ \A smaller \in 1 .. ev.size : pick_node(chunks, smaller) <= ev.index
        /\ \A i \in 0 .. MaxSizeClass :
              pick_node(chunks, chunks.min_chunk_size * (2 ^ i)) = i

\* pick_node was applied to the chunk size of a class above the smallest, and to
\* a size one above a chunk size
C17_Witness ==
    /\ ev.op = "pick_node" /\ ev.index >= 2
    /\ chunks.min_chunk_size > 1
    /\ ev.size = chunks.min_chunk_size * (2 ^ (ev.index - 1)) + 1

\* 1, 2, 4, ...
IsPowerOfTwo(n) == \E k \in 0 .. 30 : n = 2 ^ k

\* C19: for a power of two as alignment, shift_for_alignment returns the smallest
\* multiple of the alignment that is not below the offset (the offset when it is
\* aligned, 0 for 0), and alignment_shift returns that minus the offset, which is
\* at least 0 and below the alignment.
C19_Alignment ==
    IsPowerOfTwo(ev.alignment) =>
        /\ ev.op = "shift_for_alignment" =>
              /\ ev.result = AlignedUp(ev.alignment, ev.offset)
              /\ ev.offset % ev.alignment = 0 => ev.result = ev.offset
              /\ ev.offset = 0 => ev.result = 0
        /\ ev.op = "alignment_shift" =>
              /\ ev.result = AlignedUp(ev.alignment, ev.offset) - ev.offset
              /\ ev.result >= 0
              /\ ev.result < ev.alignment

\* alignment_shift was applied to an offset above the alignment that is not
\* aligned
C19_Witness ==
    /\ ev.op = "alignment_shift"
    /\ ev.alignment = 16 /\ ev.offset = 37 /\ ev.result = 11

====
